---- MODULE Spec2Model ----
(***************************************************************************)
(* Master / storage-node coordination layer of the distributed file store. *)
(*                                                                         *)
(* The master (src/master-node/server.js) keeps its metadata in SQLite;    *)
(* each table is modelled as a set of rows, and every key or reference     *)
(* constraint of the schema is enforced where the code runs the statement. *)
(* A storage node (src/storage-node/server.js) keeps fragment objects on   *)
(* its own disk and talks to the master over HTTP.                         *)
(*                                                                         *)
(* Tables modelled: node, node_heartbeat, node_capacity, file_versions,    *)
(* file_segments, file_fragments, fragment_location.  Every handler is one *)
(* action; what it answers is kept in resp until the next step.            *)
(***************************************************************************)
EXTENDS Integers, Sequences, FiniteSets, TLC

\* ------------------------------------------------------------------ bounds
MaxNodes == 2
MaxTicks == 1
MaxVersions == 2
MaxSegments == 1
MaxFragments == 2
MaxObjects == 2
MaxHeartbeats == 2
MaxResets == 1
MaxPlans == 2

\* ------------------------------------------------------- program constants
\* JS undefined / null of an optional request field.
Null == -1
\* The master's own NODE_ID (a uuid drawn at start).
MasterId == 0
HEARTBEAT_INTERVAL == 10000
\* Heartbeat age beyond which a node is not eligible for placement.
LivenessWindow == 90000

\* Sizes are counted in MiB.  defaultCapacity of a storage node, 100 GB,
\* 100 * 1024 MiB:
DefaultCapacity == 102400
\* totalBytes of the master, 12 GB, 12 * 1024 MiB:
MasterCapacity == 12288
\* Size of the body of one fragment:
DataBytes == 128

\* Seed rows of erasure_profile.
ErasureProfile ==
    [ LOW    |-> [k |-> 4, m |-> 2],
      MEDIUM |-> [k |-> 6, m |-> 3],
      HIGH   |-> [k |-> 8, m |-> 4] ]

TotalFragments(e) == ErasureProfile[e].k + ErasureProfile[e].m

\* ------------------------------------------------------------- identities
\* Storage-node processes, each with the NODE_ID it drew at start.
StorageProcs == 1..MaxNodes

\* NODE_HOSTNAME of a process: the container address.  A restarted
\* container keeps its address and draws a new NODE_ID, so processes
\* 2k-1 and 2k stand for two runs on the same host.
HostOf(n) == (n + 1) \div 2

RoleOf(n) == "STORAGE"

VersionIds == 1..MaxVersions

VARIABLES
    now,                \* wall clock of the master, ms
    ticks,              \* clock steps taken
    node,               \* table node
    node_heartbeat,     \* table node_heartbeat
    node_capacity,      \* table node_capacity
    file_versions,      \* table file_versions, its version ids
    file_segments,      \* table file_segments
    file_fragments,     \* table file_fragments
    fragment_location,  \* table fragment_location
    objects,            \* fragment objects on the storage nodes' disks
    confirmed,          \* confirm calls the master has received
    stopped,            \* node ids whose process has shut down
    due,                \* storage processes with a registerWithMaster call ahead
    reachable,          \* whether the storage nodes' calls reach the master
    armed,              \* storage processes whose interval timers are set
    pending,            \* timer callbacks that are due and have not run yet
    resp                \* answer of the handler that ran in the last step

vars == << now, ticks, node, node_heartbeat, node_capacity, file_versions,
           file_segments, file_fragments, fragment_location, objects, confirmed,
           stopped, due, reachable, armed, pending, resp >>

NoResp == [op |-> "none"]

\* ------------------------------------------------------------ statements
\* JS falsiness of an optional numeric field: undefined, null and 0.
Falsy(x) == x = Null \/ x = 0

\* All orders in which a result set may be returned.
Orderings(S) ==
    { f \in [1..Cardinality(S) -> S] : \A i, j \in DOMAIN f : i # j => f[i] # f[j] }

\* What a query that left out the nodes without room would return: the
\* active storage nodes whose capacity row has bytes available.
StorageNodesWithRoom(nd) ==
    { r \in nd : /\ r.node_role = "STORAGE"
                 /\ r.is_active
                 /\ \E c \in node_capacity :
                        c.node_id = r.node_id /\ c.available_bytes > 0 }

\* What a query without its condition on node_role would return.
ActiveNodes(nd) == { r \in nd : r.is_active }

\* getStorageNodesStmt: the nodes a plan may use.
StorageNodes(nd) == { r \in nd : r.node_role = "STORAGE" /\ r.is_active }

\* What a registration that replaced the rows of the registering host would
\* leave.
ReplaceByHostname(nd, row) == { r \in nd : r.hostname # row.hostname } \cup {row}

\* insertNodeStmt, INSERT OR REPLACE: the row of the same node_id is deleted,
\* then the new row is inserted.
InsertOrReplaceNode(nd, row) == { r \in nd : r.node_id # row.node_id } \cup {row}

\* fragment_location.node_id REFERENCES node ON DELETE CASCADE: deleting a
\* node row (REPLACE does) deletes the location rows that name it.
CascadeNodeDelete(fl, nd, id) ==
    IF \E r \in nd : r.node_id = id THEN { x \in fl : x.node_id # id } ELSE fl

\* insertCapacityStmt, INSERT OR REPLACE with used_bytes 0.
InsertOrReplaceCapacity(nc, id, totalBytes, availableBytes) ==
    { r \in nc : r.node_id # id } \cup
        { [node_id |-> id, total_bytes |-> totalBytes, used_bytes |-> 0,
           available_bytes |-> availableBytes] }

\* updateCapacityStmt.
UpdateCapacityStmt(nc, usedBytes, availableBytes, id) ==
    { IF r.node_id = id
      THEN [r EXCEPT !.used_bytes = usedBytes, !.available_bytes = availableBytes]
      ELSE r : r \in nc }

\* What a history that kept one record for each node would hold after a
\* heartbeat.
ReplaceHeartbeat(nh, id, t) ==
    { h \in nh : h.node_id # id } \cup
        { [heartbeat_id |-> Cardinality(nh) + 1, node_id |-> id, heartbeat_at |-> t] }

\* insertHeartbeatStmt with a fresh heartbeat_id.
InsertHeartbeat(nh, id, t) ==
    nh \cup { [heartbeat_id |-> Cardinality(nh) + 1, node_id |-> id, heartbeat_at |-> t] }

\* What a heartbeat statement that also reaped would leave: the rows whose
\* heartbeat is older than the liveness window lose is_active.
UpdateHeartbeatAndReap(nd, id, t) ==
    { IF r.node_id = id THEN [r EXCEPT !.heartbeat_at = t, !.is_active = TRUE]
      ELSE IF t - r.heartbeat_at > LivenessWindow THEN [r EXCEPT !.is_active = FALSE]
      ELSE r : r \in nd }

\* What a heartbeat statement that registered the nodes it did not know
\* would leave.
UpsertHeartbeat(nd, id, t) ==
    IF \E r \in nd : r.node_id = id
    THEN { IF r.node_id = id THEN [r EXCEPT !.heartbeat_at = t, !.is_active = TRUE]
           ELSE r : r \in nd }
    ELSE nd \cup { [node_id |-> id, node_role |-> RoleOf(id), hostname |-> HostOf(id),
                    is_active |-> TRUE, heartbeat_at |-> t] }

\* updateHeartbeatStmt.
UpdateHeartbeat(nd, id, t) ==
    { IF r.node_id = id THEN [r EXCEPT !.heartbeat_at = t, !.is_active = TRUE] ELSE r
      : r \in nd }

\* Logical address the plan records for a fragment.
PlanAddress(fragmentId) ==
    [dir |-> "/storage/fragments", fileId |-> 0, fragmentOrder |-> 0, fragmentId |-> fragmentId]

\* Object key a storage node writes, `objects/<fileId>/<order>_<fragmentId>.bin`;
\* fileId defaults to 'unknown' (0) and the order to '0'.
ObjectAddress(fileId, fragmentOrder, fragmentId) ==
    [dir |-> "objects",
     fileId |-> IF Falsy(fileId) THEN 0 ELSE fileId,
     fragmentOrder |-> IF fragmentOrder = Null THEN 0 ELSE fragmentOrder,
     fragmentId |-> fragmentId]

\* ------------------------------------------------------------------ inputs
\* Clock steps: one heartbeat interval, or a silence longer than the window.
TickInputs == { HEARTBEAT_INTERVAL, LivenessWindow + HEARTBEAT_INTERVAL }

\* A version id that is not in file_versions.
UnknownVersion == MaxVersions + 1

\* Fragment descriptors {num_fragment, bytes}; either field may be left out.
\* n descriptors that leave num_fragment to the planner:
DefaultData(n) == [i \in 1..n |-> [num_fragment |-> Null, bytes |-> 1]]

\* n descriptors numbered by the caller, in descending order n..1:
DescendingData(n) == [i \in 1..n |-> [num_fragment |-> n + 1 - i, bytes |-> 1]]

\* a list whose last descriptor has no bytes:
NoBytesData(n) == [i \in 1..n |-> [num_fragment |-> Null,
                                   bytes |-> IF i = n THEN Null ELSE 1]]

Request(version_id, segment_id, hasList, fragment_data, erasure_id) ==
    [version_id |-> version_id, segment_id |-> segment_id, hasList |-> hasList,
     fragment_data |-> fragment_data, erasure_id |-> erasure_id]

\* Requests that fail validation or a constraint of file_segments.
RejectedRequests ==
    { Request(Null, Null, TRUE, DefaultData(1), "MEDIUM"),
      Request(1, Null, FALSE, << >>, "MEDIUM"),
      Request(UnknownVersion, Null, TRUE, DefaultData(1), "MEDIUM"),
      Request(1, Null, TRUE, NoBytesData(MaxFragments), "MEDIUM") }

\* ----------------------------------------------------------------- master
Init ==
    /\ now = 0
    /\ ticks = 0
    /\ node = { [node_id |-> MasterId, node_role |-> "MASTER", hostname |-> 0,
                 is_active |-> TRUE, heartbeat_at |-> 0] }
    /\ node_heartbeat = {}
    /\ node_capacity = { [node_id |-> MasterId, total_bytes |-> MasterCapacity,
                          used_bytes |-> 0, available_bytes |-> MasterCapacity] }
    /\ file_versions = VersionIds
    /\ file_segments = {}
    /\ file_fragments = {}
    /\ fragment_location = {}
    /\ objects = {}
    /\ confirmed = {}
    /\ stopped = {}
    /\ due = StorageProcs
    /\ reachable = TRUE
    /\ armed = {}
    /\ pending = {}
    /\ resp = NoResp

\* A process serves and calls until it has shut down.
Running(id) == id \notin stopped

\* The environment: time passes.
Tick(d) ==
    /\ ticks < MaxTicks
    /\ now' = now + d
    /\ ticks' = ticks + 1
    /\ resp' = NoResp
    /\ UNCHANGED << due, reachable, armed, pending, stopped, file_versions,
                    node_heartbeat, node_capacity, node, file_segments,
                    file_fragments, fragment_location, objects, confirmed >>

\* POST /register-node, as registerWithMaster of storage process n calls it.
RegisterNode(n) ==
    LET row == [node_id |-> n, node_role |-> RoleOf(n), hostname |-> HostOf(n),
                is_active |-> TRUE, heartbeat_at |-> now]
    IN  /\ Running(n)
        /\ Running(MasterId)
        /\ node' = InsertOrReplaceNode(node, row)
        /\ fragment_location' = CascadeNodeDelete(fragment_location, node, n)
        /\ node_capacity' =
               IF RoleOf(n) = "STORAGE"
               THEN InsertOrReplaceCapacity(node_capacity, n, DefaultCapacity, DefaultCapacity)
               ELSE node_capacity
        /\ resp' = [op |-> "register", status |-> "ok", node_id |-> n]
        /\ UNCHANGED << now, ticks, due, reachable, armed, pending, stopped,
                        file_versions, node_heartbeat, file_segments,
                        file_fragments, objects, confirmed >>

\* POST /register-node with a body that lacks nodeId, apiEndpoint, nodeRole
\* or hostname, sent for node n: 400 before any statement runs.
RegisterIncomplete(n) ==
    /\ Running(MasterId)
    /\ resp' = [op |-> "register", status |-> "err400", node_id |-> n]
    /\ UNCHANGED << now, ticks, due, reachable, armed, pending, stopped, node,
                    node_heartbeat, node_capacity, file_versions,
                    file_segments, file_fragments, fragment_location,
                    objects, confirmed >>

\* What a node that gave up after a failed registration would have ahead.
GiveUp(d, n) == d \ {n}

\* catch of registerWithMaster: setTimeout(registerWithMaster, 5000), every
\* time, so the call stays ahead of the process.
RetryLater(d, n) == d \cup {n}

\* registerWithMaster of storage process n, at start or when its retry timer
\* fires.  The call fails when it does not reach the master, and also when
\* the master's answer is lost (answered is whether it comes back); what the
\* master did stays done.  The call startServer awaits returns whether it
\* failed or not, and startServer goes on to set the two interval timers.
RegisterWithMaster(n, answered) ==
    LET row == [node_id |-> n, node_role |-> RoleOf(n), hostname |-> HostOf(n),
                is_active |-> TRUE, heartbeat_at |-> now]
        served == reachable /\ Running(MasterId)
    IN  /\ Running(n)
        /\ n \in due
        /\ node' = IF served THEN InsertOrReplaceNode(node, row) ELSE node
        /\ fragment_location' =
               IF served THEN CascadeNodeDelete(fragment_location, node, n)
               ELSE fragment_location
        /\ node_capacity' =
               IF served /\ RoleOf(n) = "STORAGE"
               THEN InsertOrReplaceCapacity(node_capacity, n, DefaultCapacity, DefaultCapacity)
               ELSE node_capacity
        /\ due' = IF served /\ answered THEN due \ {n} ELSE RetryLater(due, n)
        /\ resp' = [op |-> "register",
                    status |-> IF served /\ answered THEN "ok" ELSE "failed",
                    node_id |-> n]
        /\ armed' = armed \cup {n}
        /\ UNCHANGED << now, ticks, reachable, pending, stopped, file_versions,
                        node_heartbeat, file_segments, file_fragments, objects,
                        confirmed >>

\* The environment: the route from the storage nodes to the master comes up
\* or goes down (the master's container starting, the overlay network).
SetReachable(up) ==
    /\ reachable # up
    /\ reachable' = up
    /\ resp' = NoResp
    /\ UNCHANGED << now, ticks, due, armed, pending, stopped, node,
                    node_heartbeat, node_capacity, file_versions,
                    file_segments, file_fragments, fragment_location, objects,
                    confirmed >>

\* POST /node-heartbeat, as the heartbeat timer of storage process n calls
\* it.  For an unknown node the UPDATE changes nothing and the history
\* insert breaks its reference to node, which the handler answers with 500.
Heartbeat(n) ==
    LET known == \E r \in node : r.node_id = n
    IN  /\ Running(n)
        /\ Running(MasterId)
        /\ known => Cardinality(node_heartbeat) < MaxHeartbeats
        /\ node' = UpdateHeartbeat(node, n, now)
        /\ node_heartbeat' = IF known THEN InsertHeartbeat(node_heartbeat, n, now)
                             ELSE node_heartbeat
        /\ resp' = [op |-> "heartbeat", status |-> IF known THEN "ok" ELSE "err500",
                    node_id |-> n]
        /\ UNCHANGED << now, ticks, due, reachable, armed, pending, stopped,
                        file_versions, node_capacity, file_segments,
                        file_fragments, fragment_location, objects, confirmed >>

\* heartbeat() of the master, on its own timer: the two statements on its
\* own row.
MasterHeartbeat ==
    /\ Running(MasterId)
    /\ Cardinality(node_heartbeat) < MaxHeartbeats
    /\ node' = UpdateHeartbeat(node, MasterId, now)
    /\ node_heartbeat' = InsertHeartbeat(node_heartbeat, MasterId, now)
    /\ resp' = [op |-> "heartbeat", status |-> "ok", node_id |-> MasterId]
    /\ UNCHANGED << now, ticks, due, reachable, armed, pending, stopped,
                    file_versions, node_capacity, file_segments,
                    file_fragments, fragment_location, objects, confirmed >>

\* updateCapacity() of the master, on its own timer.  Nothing writes into
\* the master's storage path: the files it finds add up to 0.
MasterUpdateCapacity ==
    LET usedBytes == 0
        totalBytes == IF \E r \in node_capacity : r.node_id = MasterId
                      THEN (CHOOSE r \in node_capacity : r.node_id = MasterId).total_bytes
                      ELSE MasterCapacity
    IN  /\ Running(MasterId)
        /\ node_capacity' = UpdateCapacityStmt(node_capacity, usedBytes,
                                               totalBytes - usedBytes, MasterId)
        /\ resp' = [op |-> "capacity", status |-> "ok", node_id |-> MasterId,
                    totalBytes |-> totalBytes, usedBytes |-> usedBytes,
                    availableBytes |-> totalBytes - usedBytes]
        /\ UNCHANGED << now, ticks, due, reachable, armed, pending, stopped,
                        file_versions, node_heartbeat, node, file_segments,
                        file_fragments, fragment_location, objects, confirmed >>

\* POST /update-capacity, what it leaves in node_capacity:
\* updateCapacityStmt.run(usedBytes || 0, availableBytes || totalBytes, nodeId).
UpdateCapacityRows(nc, nodeId, totalBytes, usedBytes, availableBytes) ==
    UpdateCapacityStmt(nc,
                       IF Falsy(usedBytes) THEN 0 ELSE usedBytes,
                       IF Falsy(availableBytes) THEN totalBytes ELSE availableBytes,
                       nodeId)

\* Bodies of POST /update-capacity: an empty volume of the default size,
\* and a volume of no size at all, every field 0 but usedBytes.
CapacityBodies ==
    { [totalBytes |-> DefaultCapacity, usedBytes |-> 0,
       availableBytes |-> DefaultCapacity],
      [totalBytes |-> 0, usedBytes |-> DefaultCapacity, availableBytes |-> 0] }

\* POST /update-capacity, whoever calls it.  The UPDATE of a node that has
\* no capacity row changes nothing, and the answer is success all the same.
PostUpdateCapacity(nodeId, body) ==
    /\ Running(MasterId)
    /\ node_capacity' = UpdateCapacityRows(node_capacity, nodeId, body.totalBytes,
                                           body.usedBytes, body.availableBytes)
    /\ resp' = [op |-> "capacity", status |-> "ok", node_id |-> nodeId,
                totalBytes |-> body.totalBytes, usedBytes |-> body.usedBytes,
                availableBytes |-> body.availableBytes]
    /\ UNCHANGED << now, ticks, due, reachable, armed, pending, stopped,
                    file_versions, node_heartbeat, node, file_segments,
                    file_fragments, fragment_location, objects, confirmed >>

\* Bytes of the objects node n wrote.
ObjectBytes(objs, n) == DataBytes * Cardinality({ o \in objs : o.node_id = n })

\* What getDirectorySize may find under a storage path that earlier runs
\* wrote to (the volume outlives the process): nothing, one fragment, or a
\* full volume.
VolumeSizes == { 0, DataBytes, DefaultCapacity }

\* updateCapacity() of storage node n, which found usedBytes under its
\* storage path: the call to POST /update-capacity, its failure only logged.
ReportCapacity(nc, n, usedBytes) ==
    IF Running(MasterId)
    THEN UpdateCapacityRows(nc, n, DefaultCapacity, usedBytes, DefaultCapacity - usedBytes)
    ELSE nc

\* updateCapacity() of storage node n on its timer, getDirectorySize
\* having found usedBytes.
UpdateCapacity(n, usedBytes) ==
    /\ Running(n)
    /\ node_capacity' = ReportCapacity(node_capacity, n, usedBytes)
    /\ resp' = [op |-> "capacity",
                status |-> IF Running(MasterId) THEN "ok" ELSE "unreachable",
                node_id |-> n, totalBytes |-> DefaultCapacity,
                usedBytes |-> usedBytes,
                availableBytes |-> DefaultCapacity - usedBytes]
    /\ UNCHANGED << now, ticks, due, reachable, armed, pending, stopped,
                    file_versions, node_heartbeat, node, file_segments,
                    file_fragments, fragment_location, objects, confirmed >>

\* The two interval timers of a storage node.
TimerNames == { "heartbeat", "capacity" }

Callback(n, timer) == [node_id |-> n, timer |-> timer]

\* The environment: the period of a timer has passed on the storage nodes.
\* setInterval makes the callback due on every node that has set it and
\* still runs.
TimerPeriod(timer) ==
    LET fired == { Callback(n, timer) : n \in armed \ stopped }
    IN  /\ ~(fired \subseteq pending)
        /\ pending' = pending \cup fired
        /\ resp' = NoResp
        /\ UNCHANGED << now, ticks, due, reachable, armed, stopped, node,
                        node_heartbeat, node_capacity, file_versions,
                        file_segments, file_fragments, fragment_location,
                        objects, confirmed >>

\* What a callback that cleared its interval when its call failed would
\* leave of the timers.
ClearInterval(a, n) == a \ {n}

\* catch of heartbeat() and of updateCapacity(): the error is logged, and
\* nothing is done about the timers.
AfterFailure(a, n) == a

\* heartbeat() of storage node n, run by its interval timer: one call to
\* POST /node-heartbeat, whose failure is only logged.
OnHeartbeatTimer(n) ==
    LET known == \E r \in node : r.node_id = n
        served == reachable /\ Running(MasterId)
        ok == served /\ known
    IN  /\ Running(n)
        /\ Callback(n, "heartbeat") \in pending
        /\ ok => Cardinality(node_heartbeat) < MaxHeartbeats
        /\ pending' = pending \ { Callback(n, "heartbeat") }
        /\ node' = IF served THEN UpdateHeartbeat(node, n, now) ELSE node
        /\ node_heartbeat' = IF ok THEN InsertHeartbeat(node_heartbeat, n, now)
                             ELSE node_heartbeat
        /\ armed' = IF ok THEN armed ELSE AfterFailure(armed, n)
        /\ resp' = [op |-> "heartbeat",
                    status |-> IF ok THEN "ok"
                               ELSE IF served THEN "err500" ELSE "unreachable",
                    node_id |-> n]
        /\ UNCHANGED << now, ticks, due, reachable, stopped, file_versions,
                        node_capacity, file_segments, file_fragments,
                        fragment_location, objects, confirmed >>

\* updateCapacity() of storage node n, run by its interval timer,
\* getDirectorySize having found usedBytes: one call to POST
\* /update-capacity, whose failure is only logged.
OnCapacityTimer(n, usedBytes) ==
    LET served == reachable /\ Running(MasterId)
    IN  /\ Running(n)
        /\ Callback(n, "capacity") \in pending
        /\ pending' = pending \ { Callback(n, "capacity") }
        /\ node_capacity' = IF served THEN ReportCapacity(node_capacity, n, usedBytes)
                            ELSE node_capacity
        /\ armed' = IF served THEN armed ELSE AfterFailure(armed, n)
        /\ resp' = [op |-> "capacity",
                    status |-> IF served THEN "ok" ELSE "unreachable",
                    node_id |-> n, totalBytes |-> DefaultCapacity,
                    usedBytes |-> usedBytes,
                    availableBytes |-> DefaultCapacity - usedBytes]
        /\ UNCHANGED << now, ticks, due, reachable, stopped, file_versions,
                        node_heartbeat, node, file_segments, file_fragments,
                        fragment_location, objects, confirmed >>

\* Number of leading descriptors whose insert into file_fragments succeeds:
\* bytes is NOT NULL, and the loop ends at the first insert that throws.
GoodPrefix(fragment_data) ==
    LET bad == { i \in DOMAIN fragment_data : fragment_data[i].bytes = Null }
    IN  IF bad = {} THEN Len(fragment_data)
        ELSE (CHOOSE i \in bad : \A j \in bad : i <= j) - 1

\* What a loop that took the first node of the list for every descriptor
\* would assign.
FirstNode(storageNodes, i) == storageNodes[1].node_id

\* storageNodes[i % storageNodes.length].node_id, i counted from 0.
AssignedNode(storageNodes, i) ==
    storageNodes[(i % Len(storageNodes)) + 1].node_id

\* fragment.num_fragment || i
NumFragment(d, i) == IF Falsy(d.num_fragment) THEN i ELSE d.num_fragment

\* Fragment ids are fresh uuids: a new one is no id that a row, an object
\* on a disk or a confirm call carries.  LastFragmentId is the highest in use.
LastFragmentId ==
    LET used == { f.fragment_id : f \in file_fragments }
                    \cup { o.address.fragmentId : o \in objects }
                    \cup { c.fragment_id : c \in confirmed } \cup {0}
    IN  CHOOSE x \in used : \A y \in used : y <= x

\* POST /file-fragments.  storageNodes is the result of getStorageNodesStmt
\* in the order the store returned it; the fragment ids are fresh uuids.
\* No transaction spans the inserts: what was inserted before a failing
\* insert stays.  insertFragmentLocationStmt never meets its primary key
\* here, the fragment id being fresh, nor a missing reference.
PlanFragmentsUpTo(req, storageNodes, maxRows, maxSegments) ==
    LET version_id == req.version_id
        fragment_data == req.fragment_data
        base == LastFragmentId
        good == GoodPrefix(fragment_data)
        actualSegmentId == IF req.segment_id = Null THEN Cardinality(file_segments) + 1
                           ELSE req.segment_id
        segmentOk == /\ version_id \in file_versions
                     /\ \A s \in file_segments : s.segment_id # actualSegmentId
        newFragments ==
            { [fragment_id |-> base + i, segment_id |-> actualSegmentId,
               num_fragment |-> NumFragment(fragment_data[i], i - 1)] : i \in 1..good }
        newLocations ==
            { [fragment_id |-> base + i, node_id |-> AssignedNode(storageNodes, i - 1),
               fragment_address |-> PlanAddress(base + i), status |-> "ACTIVE"]
              : i \in 1..good }
        results ==
            [i \in 1..good |->
                [fragmentId |-> base + i, nodeId |-> AssignedNode(storageNodes, i - 1)]]
        rejected(st) == [op |-> "plan", status |-> st, erasure_id |-> req.erasure_id]
    IN  /\ Running(MasterId)
        /\ storageNodes \in Orderings(StorageNodes(node))
        /\ UNCHANGED << now, ticks, due, reachable, armed, pending, stopped,
                        file_versions, node_heartbeat, node_capacity, node,
                        objects, confirmed >>
        /\ IF version_id = Null \/ ~req.hasList
           THEN /\ resp' = rejected("err400")
                /\ UNCHANGED << file_segments, file_fragments,
                                fragment_location >>
           ELSE IF Len(storageNodes) = 0
           THEN /\ resp' = rejected("err503")
                /\ UNCHANGED << file_segments, file_fragments,
                                fragment_location >>
           ELSE IF ~segmentOk
           THEN /\ resp' = rejected("err500")
                /\ UNCHANGED << file_segments, file_fragments,
                                fragment_location >>
           ELSE /\ Cardinality(file_segments) < maxSegments
                /\ Cardinality(file_fragments) + good <= maxRows
                /\ file_segments' = file_segments \cup
                       { [segment_id |-> actualSegmentId, version_id |-> version_id,
                          erasure_id |-> req.erasure_id] }
                /\ file_fragments' = file_fragments \cup newFragments
                /\ fragment_location' = fragment_location \cup newLocations
                /\ resp' = IF good = Len(fragment_data)
                           THEN [op |-> "plan", status |-> "ok", fragments |-> results,
                                 segment_id |-> actualSegmentId,
                                 available |-> Len(storageNodes),
                                 requested |-> Len(fragment_data),
                                 erasure_id |-> req.erasure_id]
                           ELSE rejected("err500")

\* POST /file-fragments while file_segments holds fewer than MaxSegments rows.
PlanFragments(req, storageNodes, maxRows) ==
    PlanFragmentsUpTo(req, storageNodes, maxRows, MaxSegments)

\* What a confirm handler that inserted a location row for every call, into
\* a fragment_location without its key on fragment_id, would leave.
InsertLocationUnkeyed(fl, fragmentId, nodeId, fragmentAddress) ==
    fl \cup { [fragment_id |-> fragmentId, node_id |-> nodeId,
               fragment_address |-> fragmentAddress, status |-> "ACTIVE"] }

\* POST /fragments on the master, the call a storage node confirms a write
\* with.  Its statement names columns (file_id, node_id, fragment_order, ...)
\* that file_fragments does not have, so preparing it throws and the handler
\* answers 500 having written nothing.
ConfirmStatus(fragmentId, nodeId) == "err500"

\* What a confirm handler that undid the segment of a fragment it could not
\* record would leave: the rows of the other fragments are removed.
DropOtherLocations(fl, fragmentId, nodeId, fragmentAddress) ==
    { x \in fl : x.fragment_id = fragmentId }

\* fragment_location after the master handled a confirm call.
ConfirmLocations(fl, fragmentId, nodeId, fragmentAddress) == fl

\* file_versions: version v is the one version of file v.
FileOf(versionId) == versionId

\* GET /fragments/locations/:versionId, the join and its WHERE clause:
\* file_versions - file_segments - file_fragments - fragment_location - node,
\* kept for the version asked, ACTIVE locations and active nodes.
JoinRows(nd, versionId) ==
    { [fragment_id |-> p[1].fragment_id, num_fragment |-> p[1].num_fragment,
       node_id |-> p[2].node_id, fragment_address |-> p[2].fragment_address]
      : p \in { q \in file_fragments \X fragment_location :
                  /\ versionId \in file_versions
                  /\ \E fs \in file_segments :
                         fs.segment_id = q[1].segment_id /\ fs.version_id = versionId
                  /\ q[2].fragment_id = q[1].fragment_id
                  /\ q[2].status = "ACTIVE"
                  /\ \E n \in nd : n.node_id = q[2].node_id /\ n.is_active } }

\* ORDER BY ff.num_fragment: every order of the rows that ascends in
\* num_fragment (rows of equal num_fragment come in any order).
RECURSIVE OrderBy(_)
OrderBy(rows) ==
    IF rows = {} THEN { << >> }
    ELSE UNION { { << r >> \o rest : rest \in OrderBy(rows \ {r}) }
                 : r \in { x \in rows : \A y \in rows : x.num_fragment <= y.num_fragment } }

ResolveFragments(versionId) ==
    /\ Running(MasterId)
    /\ \E rows \in OrderBy(JoinRows(node, versionId)) :
           resp' = [op |-> "resolve", by |-> "version", id |-> versionId,
                    status |-> "ok", rows |-> rows]
    /\ UNCHANGED << now, ticks, due, reachable, armed, pending, stopped,
                    file_versions, node_heartbeat, node_capacity, node,
                    file_segments, file_fragments, fragment_location, objects,
                    confirmed >>

\* GET /fragments/:fileId, the lookup by file.  Its statement reads
\* ff.node_id, ff.file_id and ff.fragment_order, columns file_fragments does
\* not have: preparing it throws and the handler answers 500.
ResolveByFile(fileId) ==
    /\ Running(MasterId)
    /\ resp' = [op |-> "resolve", by |-> "file", id |-> fileId,
                status |-> "err500", rows |-> << >>]
    /\ UNCHANGED << now, ticks, due, reachable, armed, pending, stopped,
                    file_versions, node_heartbeat, node_capacity, node,
                    file_segments, file_fragments, fragment_location, objects,
                    confirmed >>

\* Ids a caller may ask a profile for: the seeded ids, their lower-case
\* spellings, and one that is no profile.
ErasureIdInputs == { "LOW", "low", "MEDIUM", "medium", "HIGH", "high", "NONE" }

\* getErasureProfileStmt: WHERE erasure_id = ? compares text byte by byte.
ProfileRowsOf(erasureId) ==
    { [erasure_id |-> e, k |-> ErasureProfile[e].k, m |-> ErasureProfile[e].m]
      : e \in { x \in DOMAIN ErasureProfile : x = erasureId } }

\* GET /erasure-profiles/:erasureId: the columns k and m of the row, or 404
\* with the one field error.
GetErasureProfile(erasureId) ==
    /\ Running(MasterId)
    /\ resp' = IF ProfileRowsOf(erasureId) = {}
               THEN [op |-> "profile", id |-> erasureId, status |-> "err404",
                     payload |-> [error |-> "Erasure profile not found"]]
               ELSE LET row == CHOOSE r \in ProfileRowsOf(erasureId) : TRUE
                    IN  [op |-> "profile", id |-> erasureId, status |-> "ok",
                         payload |-> [k |-> row.k, m |-> row.m]]
    /\ UNCHANGED << now, ticks, due, reachable, armed, pending, stopped,
                    file_versions, node_heartbeat, node_capacity, node,
                    file_segments, file_fragments, fragment_location, objects,
                    confirmed >>

\* GET /erasure-profiles: SELECT * FROM erasure_profile, the rows as stored.
ListErasureProfiles ==
    /\ Running(MasterId)
    /\ resp' = [op |-> "profiles", status |-> "ok",
                rows |-> UNION { ProfileRowsOf(e) : e \in DOMAIN ErasureProfile }]
    /\ UNCHANGED << now, ticks, due, reachable, armed, pending, stopped,
                    file_versions, node_heartbeat, node_capacity, node,
                    file_segments, file_fragments, fragment_location, objects,
                    confirmed >>

\* A version id no row of file_versions has had: ids are fresh uuids, here
\* the next number above every id in use and above UnknownVersion.
FreshVersion(fv) ==
    1 + CHOOSE x \in fv \cup {UnknownVersion} :
            \A y \in fv \cup {UnknownVersion} : y <= x

\* Version ids made by the seed handler rather than at start.
SeedVersions(fv) == { v \in fv : v > UnknownVersion }

\* POST /admin/seed-data.  With reset the handler first empties
\* fragment_location, file_fragments, file_segments, file_versions and
\* file_objects, one DELETE after the other; then, reset or not, it creates
\* the sample files that do not exist, each with a version of a fresh id.
AdminSeed(reset) ==
    LET kept == IF reset THEN {} ELSE file_versions
        created == IF SeedVersions(kept) = {} THEN { FreshVersion(file_versions) } ELSE {}
    IN  /\ Running(MasterId)
        /\ FreshVersion(file_versions) <= UnknownVersion + 1 + MaxResets
        /\ fragment_location' = IF reset THEN {} ELSE fragment_location
        /\ file_fragments' = IF reset THEN {} ELSE file_fragments
        /\ file_segments' = IF reset THEN {} ELSE file_segments
        /\ file_versions' = kept \cup created
        /\ resp' = [op |-> "seed", status |-> "ok", reset |-> reset,
                    sampleFiles |-> Cardinality(created)]
        /\ UNCHANGED << now, ticks, due, reachable, armed, pending, stopped,
                        node, node_heartbeat, node_capacity, objects,
                        confirmed >>

\* ----------------------------------------------------------- storage node
\* Fragment ids a plan issued.
IssuedFragments == { f.fragment_id : f \in file_fragments }

\* Fragment ids a request body can carry: those a plan issued, or none.
KnownFragments == IssuedFragments \cup {Null}

\* Objects of node n whose file name is <fragmentId>.bin or ends in
\* _<fragmentId>.bin.
Found(n, fragmentId) ==
    { o \in objects : o.node_id = n /\ o.address.fragmentId = fragmentId }

\* The confirm call storage node n makes for fragment f.
ConfirmCall(f, n) == [fragment_id |-> f, node_id |-> n]

\* What a store handler that caught the error of its write and went on
\* would do about the confirm call.
NotifiedAnyway(written) == TRUE

\* Whether the confirm call is made: axios.post comes after the awaited
\* mkdir and writeFile, and a throw of either leaves the handler's try block.
Notified(written) == written

\* POST /fragments on storage node n: write the object, tell the master,
\* answer success whatever the master said, or whether it could be reached.
\* written is whether mkdir and writeFile succeeded; a writeFile that throws
\* may have created the file already.  A store that got as far as the
\* confirm call ends with updateCapacity(); the node started on an empty
\* volume, so its directory holds the objects it wrote.
StoreFragment(n, fragmentId, hasData, written, fileId, fragmentOrder, maxObjects) ==
    LET address == ObjectAddress(fileId, fragmentOrder, fragmentId)
        object == [node_id |-> n, address |-> address]
        call == ConfirmCall(fragmentId, n)
        called == Notified(written)
        reached == called /\ Running(MasterId)
    IN  /\ Running(n)
        /\ UNCHANGED << now, ticks, due, reachable, armed, pending, stopped,
                        file_versions, node_heartbeat, node, file_segments,
                        file_fragments >>
        /\ IF Falsy(fragmentId) \/ ~hasData
           THEN /\ resp' = [op |-> "store", status |-> "err400", node_id |-> n,
                            fragment_id |-> fragmentId, write |-> "none",
                            confirm |-> "none", retry |-> FALSE]
                /\ UNCHANGED << objects, confirmed, fragment_location,
                                node_capacity >>
           ELSE /\ Cardinality(objects \cup {object}) <= maxObjects
                /\ Cardinality(confirmed \cup {call}) <= maxObjects
                /\ objects' \in IF written THEN { objects \cup {object} }
                                ELSE { objects, objects \cup {object} }
                /\ fragment_location' =
                       IF reached
                       THEN ConfirmLocations(fragment_location, fragmentId, n, address)
                       ELSE fragment_location
                /\ confirmed' = IF reached THEN confirmed \cup {call} ELSE confirmed
                /\ node_capacity' =
                       IF written
                       THEN ReportCapacity(node_capacity, n, ObjectBytes(objects', n))
                       ELSE node_capacity
                /\ resp' = [op |-> "store",
                            status |-> IF written THEN "ok" ELSE "err500",
                            node_id |-> n, fragment_id |-> fragmentId,
                            write |-> IF written THEN "ok" ELSE "failed",
                            confirm |-> IF ~called THEN "none"
                                        ELSE IF reached THEN ConfirmStatus(fragmentId, n)
                                        ELSE "unreachable",
                            retry |-> called /\ call \in confirmed]

\* GET /fragments/:fragmentId on storage node n: the bytes of the first
\* object found, or 404; the node keeps no record of what it deleted.
ReadFragment(n, fragmentId) ==
    /\ Running(n)
    /\ resp' = [op |-> "read", node_id |-> n, fragment_id |-> fragmentId,
                status |-> IF Found(n, fragmentId) = {} THEN "err404" ELSE "ok"]
    /\ UNCHANGED << now, ticks, due, reachable, armed, pending, stopped,
                    file_versions, node_heartbeat, node_capacity, node,
                    file_segments, file_fragments, fragment_location, objects,
                    confirmed >>

\* What a delete handler that told the master before it looked for the
\* object would do about the call to the master.
AsksMasterFirst(found, removed) == TRUE

\* Whether the master is asked: axios.delete comes after the early return
\* for no object found and after the awaited unlink, whose throw leaves the
\* handler's try block.
AsksMaster(found, removed) == found /\ removed

\* DELETE /fragments/:fragmentId on storage node n: unlink the first object
\* found, tell the master, answer success.  The master has no DELETE
\* /fragments/:id route: the call is answered 404, which the node only logs.
\* removed is whether unlink succeeded.  A delete that unlinked ends with
\* updateCapacity().
DeleteFragment(n, fragmentId, removed) ==
    LET found == Found(n, fragmentId) # {}
        asked == AsksMaster(found, removed)
        notify == IF ~asked THEN "none"
                  ELSE IF Running(MasterId) THEN "err404" ELSE "unreachable"
    IN  /\ Running(n)
        /\ UNCHANGED << now, ticks, due, reachable, armed, pending, stopped,
                        file_versions, node_heartbeat, node, file_segments,
                        file_fragments, fragment_location, confirmed >>
        /\ IF ~found
           THEN /\ resp' = [op |-> "delete", status |-> "err404", node_id |-> n,
                            fragment_id |-> fragmentId, notify |-> notify]
                /\ UNCHANGED << objects, node_capacity >>
           ELSE IF ~removed
           THEN /\ resp' = [op |-> "delete", status |-> "err500", node_id |-> n,
                            fragment_id |-> fragmentId, notify |-> notify]
                /\ UNCHANGED << objects, node_capacity >>
           ELSE /\ \E o \in Found(n, fragmentId) : objects' = objects \ {o}
                /\ node_capacity' = ReportCapacity(node_capacity, n, ObjectBytes(objects', n))
                /\ resp' = [op |-> "delete", status |-> "ok", node_id |-> n,
                            fragment_id |-> fragmentId, notify |-> notify]

\* SIGTERM on storage node n: POST /nodes/deregister, then exit.  The
\* master has no such route: the call is answered 404, which the node only
\* logs, and the node's row stays as it was.
ShutdownStorage(n) ==
    /\ Running(n)
    /\ stopped' = stopped \cup {n}
    /\ resp' = [op |-> "shutdown", node_id |-> n]
    /\ UNCHANGED << now, ticks, due, reachable, armed, pending, file_versions,
                    node_heartbeat, node_capacity, node, file_segments,
                    file_fragments, fragment_location, objects, confirmed >>

\* SIGTERM on the master: clear is_active of its own row, close the
\* database, exit.
ShutdownMaster ==
    /\ Running(MasterId)
    /\ node' = { IF r.node_id = MasterId THEN [r EXCEPT !.is_active = FALSE] ELSE r
                 : r \in node }
    /\ stopped' = stopped \cup {MasterId}
    /\ resp' = [op |-> "shutdown", node_id |-> MasterId]
    /\ UNCHANGED << now, ticks, due, reachable, armed, pending, file_versions,
                    node_heartbeat, node_capacity, file_segments,
                    file_fragments, fragment_location, objects, confirmed >>

\* ------------------------------------------------------------------ system
\* The system is checked one component at a time; each specification takes
\* the steps of the components it names, from Init.

\* Node registry, health monitor and placement planner.
PlannerRequests ==
    { Request(1, Null, TRUE, DefaultData(n), "LOW") : n \in 0..MaxFragments }
        \cup RejectedRequests

NextPlanner ==
    \/ \E d \in TickInputs : Tick(d)
    \/ \E n \in StorageProcs : RegisterNode(n)
    \/ \E n \in StorageProcs : Heartbeat(n)
    \/ \E n \in StorageProcs : ShutdownStorage(n)
    \/ ShutdownMaster
    \/ \E req \in PlannerRequests, storageNodes \in Orderings(StorageNodes(node)) :
           PlanFragments(req, storageNodes, MaxFragments)

SpecPlanner == Init /\ [][NextPlanner]_vars

\* Health monitor: the heartbeat timers of the storage nodes and of the
\* master, as time passes.
NextHealth ==
    \/ \E d \in TickInputs : Tick(d)
    \/ \E n \in StorageProcs : RegisterNode(n)
    \/ \E n \in StorageProcs : Heartbeat(n)
    \/ MasterHeartbeat

SpecHealth == Init /\ [][NextHealth]_vars

\* Start of the storage nodes: each calls registerWithMaster until it is
\* answered, over a route that comes and goes.
NextStart ==
    \/ \E d \in TickInputs : Tick(d)
    \/ \E n \in StorageProcs, answered \in BOOLEAN : RegisterWithMaster(n, answered)
    \/ \E up \in BOOLEAN : SetReachable(up)

SpecStart == Init /\ [][NextStart]_vars

\* The retry timer of a node fires: a call that is ahead is made.
FairStart ==
    \A n \in StorageProcs :
        WF_vars(\E answered \in BOOLEAN : RegisterWithMaster(n, answered))

SpecStartFair == SpecStart /\ FairStart

\* Round robin: a plan of up to one fragment more than there can be nodes,
\* so that the list of nodes is gone round and one node gets a second
\* fragment; a node that has shut down keeps its row.
RoundFragments == MaxNodes + 1

RoundRequests ==
    { Request(1, Null, TRUE, DefaultData(n), "LOW") : n \in 1..RoundFragments }

NextRound ==
    \/ \E n \in StorageProcs : RegisterNode(n)
    \/ \E n \in StorageProcs : ShutdownStorage(n)
    \/ \E req \in RoundRequests, storageNodes \in Orderings(StorageNodes(node)) :
           PlanFragments(req, storageNodes, RoundFragments)

SpecRound == Init /\ [][NextRound]_vars

\* Plans one after another (the handler is synchronous: two requests never
\* run at once), for the same version or another, over the same nodes.
SeriesRequests ==
    { Request(v, Null, TRUE, DefaultData(n), "LOW") :
        v \in VersionIds, n \in {1, MaxFragments} }

NextSeries ==
    \/ \E n \in StorageProcs : RegisterNode(n)
    \/ \E req \in SeriesRequests, storageNodes \in Orderings(StorageNodes(node)) :
           PlanFragmentsUpTo(req, storageNodes, MaxPlans * MaxFragments, MaxPlans)

SpecSeries == Init /\ [][NextSeries]_vars

\* Nodes that fall silent: time passes, and a node heartbeats, or does
\* not, or shuts down.
NextSilence ==
    \/ \E d \in TickInputs : Tick(d)
    \/ \E n \in StorageProcs : RegisterNode(n)
    \/ \E n \in StorageProcs : Heartbeat(n)
    \/ \E n \in StorageProcs : ShutdownStorage(n)
    \/ ShutdownMaster

SpecSilence == Init /\ [][NextSilence]_vars

\* The timers of the storage nodes from their start, on empty volumes:
\* registration with its retries, and the heartbeat and capacity callbacks
\* period after period, over a route that comes and goes.
NextTimers ==
    \/ \E n \in StorageProcs : RegisterWithMaster(n, TRUE)
    \/ \E up \in BOOLEAN : SetReachable(up)
    \/ \E timer \in TimerNames : TimerPeriod(timer)
    \/ \E n \in StorageProcs : OnHeartbeatTimer(n)
    \/ \E n \in StorageProcs : OnCapacityTimer(n, 0)

SpecTimers == Init /\ [][NextTimers]_vars

\* A callback that is due runs.
FairTimers ==
    \A n \in StorageProcs :
        /\ WF_vars(OnHeartbeatTimer(n))
        /\ WF_vars(OnCapacityTimer(n, 0))

SpecTimersFair == SpecTimers /\ FairTimers

\* Capacity snapshots: the capacity timers of the storage nodes, on volumes
\* that earlier runs wrote to, and of the master, until the nodes shut down.
NextCapacity ==
    \/ \E n \in StorageProcs : RegisterNode(n)
    \/ \E n \in StorageProcs, usedBytes \in VolumeSizes : UpdateCapacity(n, usedBytes)
    \/ MasterUpdateCapacity
    \/ \E n \in StorageProcs : ShutdownStorage(n)

SpecCapacity == Init /\ [][NextCapacity]_vars

\* Write-confirmation protocol: any storage node is sent any fragment, and
\* its disk takes every write.
WriteRequests == { Request(1, Null, TRUE, DefaultData(1), "LOW") }

NextWrite ==
    \/ \E n \in StorageProcs : RegisterNode(n)
    \/ \E req \in WriteRequests, storageNodes \in Orderings(StorageNodes(node)) :
           PlanFragments(req, storageNodes, MaxFragments)
    \/ \E n \in StorageProcs, fragmentId \in KnownFragments, hasData \in BOOLEAN :
           StoreFragment(n, fragmentId, hasData, TRUE, Null, Null, MaxObjects)
    \/ \E n \in StorageProcs, fragmentId \in IssuedFragments :
           DeleteFragment(n, fragmentId, TRUE)
    \/ \E n \in StorageProcs, fragmentId \in IssuedFragments : ReadFragment(n, fragmentId)

SpecWrite == Init /\ [][NextWrite]_vars

\* Node registry through the life of the processes: registration, the
\* timers (on empty volumes), plans and shutdown.
NextRegistry ==
    \/ \E n \in StorageProcs : RegisterNode(n)
    \/ \E n \in StorageProcs : Heartbeat(n)
    \/ \E n \in StorageProcs : UpdateCapacity(n, 0)
    \/ \E n \in StorageProcs : ShutdownStorage(n)
    \/ ShutdownMaster
    \/ \E req \in WriteRequests, storageNodes \in Orderings(StorageNodes(node)) :
           PlanFragments(req, storageNodes, MaxSegments)

SpecRegistry == Init /\ [][NextRegistry]_vars

\* Confirmation alone: any storage node is sent any fragment a plan issued,
\* or a body without a fragment id, and sent it again.
NextConfirm ==
    \/ \E n \in StorageProcs : RegisterNode(n)
    \/ \E req \in WriteRequests, storageNodes \in Orderings(StorageNodes(node)) :
           PlanFragments(req, storageNodes, MaxFragments)
    \/ \E n \in StorageProcs, fragmentId \in KnownFragments :
           StoreFragment(n, fragmentId, TRUE, TRUE, Null, Null, MaxObjects)

SpecConfirm == Init /\ [][NextConfirm]_vars

\* Store and delete handlers on disks that may fail: the uploader follows
\* the plan, any node is asked to delete any fragment, and the write or the
\* unlink of the object succeeds or throws.
StoreRequests ==
    { Request(1, Null, TRUE, DefaultData(n), "LOW") : n \in {1, MaxFragments} }

NextStore ==
    \/ \E n \in StorageProcs : RegisterNode(n)
    \/ \E req \in StoreRequests, storageNodes \in Orderings(StorageNodes(node)) :
           PlanFragments(req, storageNodes, MaxFragments)
    \/ \E l \in fragment_location, written \in BOOLEAN :
           StoreFragment(l.node_id, l.fragment_id, TRUE, written, Null, Null, MaxFragments)
    \/ \E n \in StorageProcs, fragmentId \in IssuedFragments, removed \in BOOLEAN :
           DeleteFragment(n, fragmentId, removed)

SpecStore == Init /\ [][NextStore]_vars

\* Placement over nodes with and without room: capacity reports come in,
\* and plans are asked.
PlacementRequests ==
    StoreRequests \cup { Request(Null, Null, TRUE, DefaultData(1), "LOW"),
                         Request(UnknownVersion, Null, TRUE, DefaultData(1), "LOW") }

NextPlacement ==
    \/ \E n \in StorageProcs : RegisterNode(n)
    \/ \E n \in StorageProcs, body \in CapacityBodies : PostUpdateCapacity(n, body)
    \/ \E req \in PlacementRequests, storageNodes \in Orderings(StorageNodes(node)) :
           PlanFragments(req, storageNodes, MaxFragments)

SpecPlacement == Init /\ [][NextPlacement]_vars

\* Validation: requests that lack a field or carry a malformed one reach the
\* three handlers that validate, among requests that are complete.
ValidationRequests == RejectedRequests \cup WriteRequests

NextValidation ==
    \/ \E n \in StorageProcs : RegisterNode(n)
    \/ \E n \in StorageProcs : RegisterIncomplete(n)
    \/ \E req \in ValidationRequests, storageNodes \in Orderings(StorageNodes(node)) :
           PlanFragments(req, storageNodes, MaxFragments)
    \/ \E n \in StorageProcs, fragmentId \in KnownFragments, hasData \in BOOLEAN :
           StoreFragment(n, fragmentId, hasData, TRUE, Null, Null, MaxObjects)

SpecValidation == Init /\ [][NextValidation]_vars

\* Administration: plans are made and followed, and the seed handler runs.
NextAdmin ==
    \/ \E n \in StorageProcs : RegisterNode(n)
    \/ \E req \in StoreRequests, storageNodes \in Orderings(StorageNodes(node)) :
           PlanFragments(req, storageNodes, MaxFragments)
    \/ \E l \in fragment_location :
           StoreFragment(l.node_id, l.fragment_id, TRUE, TRUE, Null, Null, MaxFragments)
    \/ \E reset \in BOOLEAN : AdminSeed(reset)

SpecAdmin == Init /\ [][NextAdmin]_vars

\* Retrieval coordinator: the uploader follows the plan, sending each
\* fragment to the node the plan names for it.
RetrievalRequests ==
    { Request(v, Null, TRUE, d, "LOW") :
        v \in VersionIds,
        d \in { DefaultData(1), DefaultData(MaxFragments), DescendingData(MaxFragments) } }

NextRetrieval ==
    \/ \E n \in StorageProcs : RegisterNode(n)
    \/ \E req \in RetrievalRequests, storageNodes \in Orderings(StorageNodes(node)) :
           PlanFragments(req, storageNodes, MaxFragments)
    \/ \E l \in fragment_location :
           StoreFragment(l.node_id, l.fragment_id, TRUE, TRUE, Null, Null, MaxFragments)
    \/ \E versionId \in VersionIds : ResolveFragments(versionId)
    \/ \E versionId \in VersionIds : ResolveByFile(FileOf(versionId))

SpecRetrieval == Init /\ [][NextRetrieval]_vars

\* Erasure profile at full size: every plan carries the k + m descriptors
\* of its profile, and the uploader follows the plan.
ProfileRequests ==
    { Request(1, Null, TRUE, DefaultData(TotalFragments(e)), e) : e \in {"LOW"} }

ProfileRows == MaxSegments * TotalFragments("LOW")

NextProfile ==
    \/ \E n \in StorageProcs : RegisterNode(n)
    \/ \E req \in ProfileRequests, storageNodes \in Orderings(StorageNodes(node)) :
           PlanFragments(req, storageNodes, ProfileRows)
    \/ \E l \in fragment_location :
           StoreFragment(l.node_id, l.fragment_id, TRUE, TRUE, Null, Null, ProfileRows)
    \/ \E versionId \in VersionIds : ResolveFragments(versionId)
    \/ \E erasureId \in ErasureIdInputs : GetErasureProfile(erasureId)
    \/ ListErasureProfiles

SpecProfile == Init /\ [][NextProfile]_vars

\* ------------------------------------------------------ placement planner
\* C1: a plan that succeeds assigns no node to two fragments of the segment
\* it planned.
C1_DistinctNodes ==
    (resp.op = "plan" /\ resp.status = "ok") =>
        \A i, j \in DOMAIN resp.fragments :
            i # j => resp.fragments[i].nodeId # resp.fragments[j].nodeId

\* C2: a plan asked while fewer nodes are eligible than the erasure profile
\* needs (k + m) fails, and file_segments and file_fragments stay as they
\* were.
C2_InsufficientNodes ==
    [][ ( /\ resp'.op = "plan"
          /\ Cardinality(StorageNodes(node)) < TotalFragments(resp'.erasure_id) )
        => ( /\ resp'.status # "ok"
             /\ file_segments' = file_segments
             /\ file_fragments' = file_fragments ) ]_vars

\* ---------------------------------------------- node registry and health
\* C6: a plan that succeeds assigns fragments only to nodes whose latest
\* heartbeat is no older than the liveness window.
C6_NoStaleNode ==
    (resp.op = "plan" /\ resp.status = "ok") =>
        \A r \in node :
            (\E i \in DOMAIN resp.fragments : resp.fragments[i].nodeId = r.node_id)
                => now - r.heartbeat_at <= LivenessWindow

\* C7: of the storage registrations that share a hostname, a plan that
\* succeeds assigns fragments only to the one whose heartbeat is the latest.
C7_LatestPerHostname ==
    (resp.op = "plan" /\ resp.status = "ok") =>
        \A a, b \in node :
            ( /\ \E i \in DOMAIN resp.fragments : resp.fragments[i].nodeId = a.node_id
              /\ b.node_role = "STORAGE"
              /\ b.hostname = a.hostname
              /\ b.node_id # a.node_id ) => b.heartbeat_at <= a.heartbeat_at

\* ------------------------------------------- write-confirmation protocol
\* C3: every row of fragment_location names a fragment and a node for which
\* the master has received that node's confirm call (made after the node
\* wrote the bytes); planning alone leaves no row.
C3_LocationOnlyAfterConfirm ==
    \A l \in fragment_location : ConfirmCall(l.fragment_id, l.node_id) \in confirmed

\* C4: whatever confirm calls the master has handled, no fragment id has
\* two ACTIVE rows in fragment_location.
C4_OneActiveLocation ==
    \A a, b \in fragment_location :
        ( /\ a.fragment_id = b.fragment_id
          /\ a.status = "ACTIVE"
          /\ b.status = "ACTIVE" ) => a = b

\* C4 happens: the master has handled confirm calls of two different nodes
\* for one fragment, the second just now, and holds an ACTIVE row for it.
C4_Witness ==
    /\ resp.op = "store"
    /\ resp.status = "ok"
    /\ \E c \in confirmed :
           c.fragment_id = resp.fragment_id /\ c.node_id # resp.node_id
    /\ \E l \in fragment_location :
           l.fragment_id = resp.fragment_id /\ l.status = "ACTIVE"

\* C5: a confirm call the master has already received once is answered
\* with success when it comes again, and leaves fragment_location as it was.
C5_ConfirmIdempotent ==
    [][ (resp'.op = "store" /\ resp'.status = "ok" /\ resp'.retry)
        => (resp'.confirm = "ok" /\ fragment_location' = fragment_location) ]_vars

\* C10: once a storage node has answered a delete with success, the row of
\* fragment_location for that fragment on that node is INACTIVE and no
\* version resolves to it.
C10_DeleteDeactivates ==
    (resp.op = "delete" /\ resp.status = "ok") =>
        /\ \A l \in fragment_location :
               (l.fragment_id = resp.fragment_id /\ l.node_id = resp.node_id)
                   => l.status = "INACTIVE"
        /\ \A v \in VersionIds : \A r \in JoinRows(node, v) :
               ~(r.fragment_id = resp.fragment_id /\ r.node_id = resp.node_id)

\* ---------------------------------------------------- retrieval coordinator
\* Fragments of the versions vs that hold an ACTIVE location on a node
\* whose is_active is set.
Resolvable(vs) ==
    { f \in file_fragments :
        /\ \E fs \in file_segments : fs.segment_id = f.segment_id /\ fs.version_id \in vs
        /\ \E l \in fragment_location :
               /\ l.fragment_id = f.fragment_id
               /\ l.status = "ACTIVE"
               /\ \E n \in node : n.node_id = l.node_id /\ n.is_active }

\* Versions a resolve answer is about.
Asked ==
    IF resp.by = "version" THEN { resp.id } ELSE { v \in VersionIds : FileOf(v) = resp.id }

\* What C9 asks of a resolve answer about the versions vs.
ExactAnswer(vs) ==
    /\ resp.status = "ok"
    /\ { resp.rows[i].fragment_id : i \in DOMAIN resp.rows }
           = { f.fragment_id : f \in Resolvable(vs) }
    /\ Len(resp.rows) = Cardinality(Resolvable(vs))
    /\ \A i, j \in DOMAIN resp.rows :
           i < j => resp.rows[i].num_fragment <= resp.rows[j].num_fragment
    /\ \A fs \in file_segments :
           LET frs == { f \in file_fragments : f.segment_id = fs.segment_id }
           IN  ( /\ fs.version_id \in vs
                 /\ frs \subseteq Resolvable(vs)
                 /\ \A f \in frs : \E c \in confirmed : c.fragment_id = f.fragment_id )
               => Cardinality({ i \in DOMAIN resp.rows :
                                  \E f \in frs : f.fragment_id = resp.rows[i].fragment_id })
                      = Cardinality(frs)

\* C9: a resolve, by file or by version, answers with exactly the fragments
\* of what was asked that hold an ACTIVE location on a node whose is_active
\* is set, each once, in ascending num_fragment; of a segment all of whose
\* fragments are confirmed and so located it answers with every fragment.
C9_ResolveExact == resp.op = "resolve" => ExactAnswer(Asked)

\* The lookup by version alone meets what C9 asks.
ResolveByVersionExact ==
    (resp.op = "resolve" /\ resp.by = "version") => ExactAnswer(Asked)

\* The lookup by version has answered with two fragments of a segment all
\* of whose fragments are confirmed, numbered by the caller in descending
\* order.
ResolveByVersionSeen ==
    /\ resp.op = "resolve"
    /\ resp.by = "version"
    /\ Len(resp.rows) >= 2
    /\ resp.rows[1].fragment_id > resp.rows[2].fragment_id
    /\ \A i \in DOMAIN resp.rows :
           \E c \in confirmed : c.fragment_id = resp.rows[i].fragment_id

\* ----------------------------------------------------------- erasure profile
\* C8: of a segment that has the k + m fragments of its profile, all with
\* an ACTIVE confirmed location, at least k stay resolvable whichever m or
\* fewer storage nodes become inactive.
C8_SurvivesNodeLoss ==
    \A fs \in file_segments :
        LET frs == { f \in file_fragments : f.segment_id = fs.segment_id }
            k == ErasureProfile[fs.erasure_id].k
            m == ErasureProfile[fs.erasure_id].m
            located == \A f \in frs : \E l \in fragment_location :
                           /\ l.fragment_id = f.fragment_id
                           /\ l.status = "ACTIVE"
                           /\ ConfirmCall(l.fragment_id, l.node_id) \in confirmed
            without(D) == { IF r.node_id \in D THEN [r EXCEPT !.is_active = FALSE] ELSE r
                            : r \in node }
            left(D) == { r \in JoinRows(without(D), fs.version_id) :
                           \E f \in frs : f.fragment_id = r.fragment_id }
        IN  (Cardinality(frs) = k + m /\ located) =>
                \A D \in SUBSET { r.node_id : r \in StorageNodes(node) } :
                    Cardinality(D) <= m => Cardinality(left(D)) >= k

\* ---------------------------------------------------------- re-registration
\* C11: registering a node id that is already registered leaves one row of
\* node for that id, with is_active set, and leaves fragment_location as it
\* was.
C11_RegisterIdempotent ==
    [][ ( /\ resp'.op = "register"
          /\ \E r \in node : r.node_id = resp'.node_id )
        => ( /\ Cardinality({ r \in node' : r.node_id = resp'.node_id }) = 1
             /\ \A r \in node' : r.node_id = resp'.node_id => r.is_active
             /\ fragment_location' = fragment_location ) ]_vars

\* ------------------------------------------------------ storage node reads
\* C12: a read on a storage node answers with the bytes while the node holds
\* the fragment, with Gone once the node has stored and since deleted it,
\* and with NotFound when the node never stored it.
C12_ReadOutcomes ==
    resp.op = "read" =>
        resp.status =
            IF Found(resp.node_id, resp.fragment_id) # {} THEN "ok"
            ELSE IF ConfirmCall(resp.fragment_id, resp.node_id) \in confirmed THEN "gone"
            ELSE "err404"

\* C13: a store whose object was written but whose confirm call the master
\* did not answer with success is not answered with success.
C13_StoreReportsConfirmFailure ==
    (resp.op = "store" /\ resp.confirm = "err500") => resp.status # "ok"

\* ------------------------------------------------------- profile catalogue
\* C14: a profile asked for by the lower-case or the upper-case spelling of
\* its id is answered with that profile: LOW (4, 2), MEDIUM (6, 3),
\* HIGH (8, 4).
C14_CaseInsensitiveGet ==
    LET upper == [ low |-> "LOW", medium |-> "MEDIUM", high |-> "HIGH",
                   LOW |-> "LOW", MEDIUM |-> "MEDIUM", HIGH |-> "HIGH" ]
        seed == [ LOW |-> [k |-> 4, m |-> 2], MEDIUM |-> [k |-> 6, m |-> 3],
                  HIGH |-> [k |-> 8, m |-> 4] ]
    IN  (resp.op = "profile" /\ resp.id \in DOMAIN upper) =>
            /\ resp.status = "ok"
            /\ resp.payload = seed[upper[resp.id]]

\* C15: a profile asked for by an id that is no profile is answered
\* NotFound, with every valid id listed in the payload.
C15_UnknownListsCatalog ==
    (resp.op = "profile" /\ resp.id = "NONE") =>
        /\ resp.status = "err404"
        /\ "valid_ids" \in DOMAIN resp.payload
        /\ resp.payload.valid_ids = { "LOW", "MEDIUM", "HIGH" }

\* C16: the list of profiles holds every profile, each with a field
\* total_fragments equal to its k + m.
C16_ListTotalFragments ==
    resp.op = "profiles" =>
        /\ { r.erasure_id : r \in resp.rows } = { "LOW", "MEDIUM", "HIGH" }
        /\ \A r \in resp.rows :
               /\ "total_fragments" \in DOMAIN r
               /\ r.total_fragments = r.k + r.m

\* --------------------------------------------------------------- shutdown
\* C17: the row of a node whose process has run its shutdown handler has
\* is_active cleared (a process that has shut down registers and heartbeats
\* no more).
C17_ShutdownClearsActive ==
    \A r \in node : r.node_id \in stopped => ~r.is_active

\* ------------------------------------------------------------------- plans
\* C18: a plan is written all-or-nothing: a plan operation that fails leaves
\* no Segment row and no Fragment row of its own in the store.
C18_PlanAllOrNothing ==
    [][ (resp'.op = "plan" /\ resp'.status # "ok")
        => ( /\ file_segments' = file_segments
             /\ file_fragments' = file_fragments ) ]_vars

\* C19: the order values stored for one segment are pairwise different and
\* form the range 0..n-1, n being the number of fragments of the segment.
C19_DenseOrder ==
    \A s \in file_segments :
        LET rows == { f \in file_fragments : f.segment_id = s.segment_id }
        IN  /\ \A f, g \in rows : f.num_fragment = g.num_fragment => f = g
            /\ { f.num_fragment : f \in rows } = 0..(Cardinality(rows) - 1)

\* C20: a successful plan for profile (k, m) holds exactly k+m entries, so a
\* list of another length yields no successful plan.
C20_PlanLength ==
    (resp.op = "plan" /\ resp.status = "ok" /\ resp.erasure_id \in DOMAIN ErasureProfile)
        => /\ Len(resp.fragments) = TotalFragments(resp.erasure_id)
           /\ resp.requested = TotalFragments(resp.erasure_id)

\* -------------------------------------------------------- location record
\* C21: for every ACTIVE location row, the node the row names holds the
\* fragment's object at exactly the address the row records.
C21_LocationHoldsObject ==
    \A l \in fragment_location :
        l.status = "ACTIVE" =>
            \E o \in objects :
                /\ o.node_id = l.node_id
                /\ o.address.fragmentId = l.fragment_id
                /\ o.address = l.fragment_address

\* ------------------------------------------------------ store and confirm
\* C22: a store step makes its confirm call only after the local write has
\* succeeded: a step whose write failed sends nothing to the master, leaves
\* the master's location rows as they were and answers a failure, and a step
\* that did call the master has the object on the node's disk.
C22_ConfirmAfterWrite ==
    [][ resp'.op = "store" =>
          /\ resp'.write = "failed" =>
                 /\ resp'.confirm = "none"
                 /\ confirmed' = confirmed
                 /\ fragment_location' = fragment_location
                 /\ resp'.status # "ok"
          /\ (resp'.confirm # "none" \/ confirmed' # confirmed) =>
                 /\ resp'.write = "ok"
                 /\ \E o \in objects' : /\ o.node_id = resp'.node_id
                                         /\ o.address.fragmentId = resp'.fragment_id ]_vars

C22_Witness ==
    /\ resp.op = "store"
    /\ resp.write = "failed"
    /\ resp.status = "err500"

\* C23: a store step that fails, in its write or in its confirm call, leaves
\* the location rows of every other fragment as they were: nothing of the
\* segment is rolled back, and the segment stays partly stored.
C23_SiblingsUntouched ==
    [][ ( /\ resp'.op = "store"
          /\ (resp'.status # "ok" \/ resp'.confirm # "ok") )
        => ( /\ { l \in fragment_location' : l.fragment_id # resp'.fragment_id }
                  = { l \in fragment_location : l.fragment_id # resp'.fragment_id }
             /\ file_fragments' = file_fragments
             /\ file_segments' = file_segments ) ]_vars

\* A store of one fragment has failed while another fragment of the same
\* segment has its location row and has not been sent to its node.
C23_Witness ==
    /\ resp.op = "store"
    /\ resp.write = "failed" \/ resp.confirm = "err500"
    /\ \E f, g \in file_fragments :
           /\ f.fragment_id = resp.fragment_id
           /\ g.segment_id = f.segment_id
           /\ g.fragment_id # f.fragment_id
           /\ \E l \in fragment_location :
                  /\ l.fragment_id = g.fragment_id
                  /\ l.status = "ACTIVE"
                  /\ ConfirmCall(g.fragment_id, l.node_id) \notin confirmed

\* ------------------------------------------------------------------ delete
\* C24: a delete step asks the master only after it has removed the local
\* object, and a delete for a fragment the node does not hold answers not
\* found, removes no object and does not contact the master.
C24_DeleteOrder ==
    [][ resp'.op = "delete" =>
          /\ resp'.notify # "none" =>
                 /\ Found(resp'.node_id, resp'.fragment_id) # {}
                 /\ \E o \in Found(resp'.node_id, resp'.fragment_id) :
                        objects' = objects \ {o}
          /\ Found(resp'.node_id, resp'.fragment_id) = {} =>
                 /\ resp'.status = "err404"
                 /\ resp'.notify = "none"
                 /\ objects' = objects
                 /\ fragment_location' = fragment_location ]_vars

\* A node was asked to delete a fragment it does not hold, while another
\* node holds an object.
C24_Witness ==
    /\ resp.op = "delete"
    /\ resp.status = "err404"
    /\ objects # {}

\* ------------------------------------------------------------- soft delete
\* C25: location rows are never hard-deleted: a fragment id that has a row in
\* fragment_location has one after every step.
C25_LocationNeverDeleted ==
    [][ \A l \in fragment_location :
            \E k \in fragment_location' : k.fragment_id = l.fragment_id ]_vars

\* C26: node rows are never hard-deleted: a node id that has a row in node
\* has one after every step.
C26_NodeNeverDeleted ==
    [][ \A r \in node : \E k \in node' : k.node_id = r.node_id ]_vars

\* A storage node registered again while another node on its host had a
\* row, or shut down, and the rows are there.
C26_Witness ==
    /\ resp.op \in {"shutdown", "register"}
    /\ \E r \in node : r.node_id = resp.node_id /\ r.node_role = "STORAGE"
    /\ \/ resp.op = "shutdown"
       \/ \E r \in node : r.node_id # resp.node_id /\ r.hostname = HostOf(resp.node_id)

\* ---------------------------------------------------------------- capacity
\* C27: the used_bytes and available_bytes stored for a node change only in
\* a step in which that node reports its capacity (its timer, or the report
\* that ends its store or delete); registering the node again leaves them.
C27_CapacityOnlyByReport ==
    [][ \A r \in node_capacity, k \in node_capacity' :
            ( /\ k.node_id = r.node_id
              /\ \/ k.used_bytes # r.used_bytes
                 \/ k.available_bytes # r.available_bytes )
            => ( /\ resp'.op \in {"capacity", "store", "delete"}
                 /\ resp'.node_id = r.node_id ) ]_vars

\* C28: after a capacity report the master has answered, the row of the node
\* holds the reported usedBytes and availableBytes, and its available_bytes
\* is total_bytes less used_bytes.
C28_SnapshotAsReported ==
    (resp.op = "capacity" /\ resp.status = "ok") =>
        \A r \in node_capacity :
            r.node_id = resp.node_id =>
                /\ r.used_bytes = resp.usedBytes
                /\ r.available_bytes = resp.availableBytes
                /\ r.available_bytes = r.total_bytes - r.used_bytes

\* --------------------------------------------------------------- heartbeat
\* C29: a heartbeat of a registered node that the master answers with success
\* leaves the node's row with heartbeat_at at the current time and is_active
\* set, and adds exactly one record, of that node and that time, to the
\* heartbeat history, every earlier record staying as it was.
C29_HeartbeatRecorded ==
    [][ (resp'.op = "heartbeat" /\ resp'.status = "ok")
        => ( /\ \E r \in node' : r.node_id = resp'.node_id
             /\ \A r \in node' :
                    r.node_id = resp'.node_id => (r.heartbeat_at = now' /\ r.is_active)
             /\ node_heartbeat \subseteq node_heartbeat'
             /\ Cardinality(node_heartbeat' \ node_heartbeat) = 1
             /\ \A h \in node_heartbeat' \ node_heartbeat :
                    h.node_id = resp'.node_id /\ h.heartbeat_at = now' ) ]_vars

\* A node has sent its second heartbeat, later than it registered.
C29_Witness ==
    /\ resp.op = "heartbeat"
    /\ resp.status = "ok"
    /\ now > 0
    /\ Cardinality({ h \in node_heartbeat : h.node_id = resp.node_id }) >= 2
    /\ \E h \in node_heartbeat : h.node_id = resp.node_id /\ h.heartbeat_at < now

\* ------------------------------------------------------------ registration
\* C30: a storage node whose registration fails tries again, whatever the
\* number of failures: if from some time on its calls reach the master, the
\* node is registered in the end (and every node is), the retry timers being
\* fair.
C30_EventuallyRegistered ==
    (<>[]reachable) => <>(\A n \in StorageProcs : \E r \in node : r.node_id = n)

\* A registration has failed with the route down, and the call is still
\* ahead of the node.
C30_Witness ==
    /\ resp.op = "register"
    /\ resp.status = "failed"
    /\ ~reachable
    /\ resp.node_id \in due
    /\ \A r \in node : r.node_id # resp.node_id

\* ------------------------------------------------------------------ timers
\* Whether the last step was a timer call of a storage node that failed.
FailedCall(r) == r.op \in {"heartbeat", "capacity"} /\ r.status # "ok"

\* C31: a heartbeat or capacity report that fails is not sent again before
\* the next period of its timer, and the timers stay set: a period that
\* passes makes the call due on every node that has set its timers, and a
\* heartbeat that is due is sent (until the history kept here is full).
C31_TimerSurvivesFailure ==
    /\ [][ /\ FailedCall(resp') =>
                /\ armed' = armed
                /\ Callback(resp'.node_id, resp'.op) \in pending
                /\ Callback(resp'.node_id, resp'.op) \notin pending'
           /\ \A cb \in pending' \ pending :
                /\ resp' = NoResp
                /\ \A n \in armed \ stopped : Callback(n, cb.timer) \in pending' ]_vars
    /\ \A n \in StorageProcs :
          (n \in armed /\ Callback(n, "heartbeat") \in pending)
              ~> \/ (n \in armed /\ Callback(n, "heartbeat") \notin pending)
                 \/ Cardinality(node_heartbeat) = MaxHeartbeats

\* A heartbeat of a registered node has just failed with the route down:
\* its timers are set, and the call is not due again.
C31_Witness ==
    /\ FailedCall(resp)
    /\ resp.op = "heartbeat"
    /\ resp.status = "unreachable"
    /\ resp.node_id \in armed
    /\ Callback(resp.node_id, "heartbeat") \notin pending
    /\ \E r \in node : r.node_id = resp.node_id

\* ------------------------------------------------------------- is_active
\* C32: is_active of a node is cleared by no step but the graceful shutdown
\* of that node itself: a registered node that has fallen silent, without
\* shutting down, is active after every later step.
C32_OnlyShutdownClears ==
    [][ \A r \in node, k \in node' :
            (r.node_id = k.node_id /\ r.is_active /\ ~k.is_active)
                => (resp'.op = "shutdown" /\ resp'.node_id = r.node_id) ]_vars

\* A storage node has been silent for longer than the liveness window, the
\* master has since handled the heartbeat of another node, and the silent
\* node's row is active.
C32_Witness ==
    /\ resp.op = "heartbeat"
    /\ resp.status = "ok"
    /\ \E r \in node : /\ r.node_role = "STORAGE"
                       /\ r.node_id # resp.node_id
                       /\ r.node_id \notin stopped
                       /\ now - r.heartbeat_at > LivenessWindow
                       /\ r.is_active

\* ------------------------------------------------------- plans in series
\* C33: once two or more plans have been made, no fragment id belongs to
\* the segments of two plans, and the fragments of each segment are on
\* pairwise different nodes, whatever nodes the other plans chose.
C33_PlansIndependent ==
    Cardinality(file_segments) >= 2 =>
        /\ \A f, g \in file_fragments :
               f.fragment_id = g.fragment_id => f.segment_id = g.segment_id
        /\ \A f, g \in file_fragments, l, k \in fragment_location :
               ( /\ f.segment_id = g.segment_id
                 /\ f.fragment_id # g.fragment_id
                 /\ l.fragment_id = f.fragment_id
                 /\ k.fragment_id = g.fragment_id ) => l.node_id # k.node_id

\* ------------------------------------------------- placement and capacity
\* The active storage nodes, whatever node_capacity holds.
ActiveStorage == { r \in node : r.node_role = "STORAGE" /\ r.is_active }

\* C34: what a plan answers does not depend on node_capacity: a request
\* that passes validation is refused for want of nodes exactly when no
\* storage node is active, a plan that succeeds had every active storage
\* node to choose from, with room or without, and planning leaves
\* node_capacity as it was.
C34_PlanIgnoresCapacity ==
    [][ (resp'.op = "plan" /\ resp'.status # "err400") =>
            /\ (resp'.status = "err503") <=> (ActiveStorage = {})
            /\ resp'.status = "ok" => resp'.available = Cardinality(ActiveStorage)
            /\ node_capacity' = node_capacity ]_vars

\* A plan has succeeded and assigned a fragment to a node whose capacity
\* row has no byte available.
C34_Witness ==
    /\ resp.op = "plan"
    /\ resp.status = "ok"
    /\ \E i \in DOMAIN resp.fragments, c \in node_capacity :
           /\ c.node_id = resp.fragments[i].nodeId
           /\ c.available_bytes = 0

\* -------------------------------------------------------------- validation
\* C35: a request that is rejected for a missing or malformed field changes
\* nothing: a register request rejected leaves node and node_capacity as
\* they were, a plan request rejected (no version id, no list, a malformed
\* descriptor) writes no row of file_segments, file_fragments or
\* fragment_location, and a store request rejected writes no object.
C35_RejectedChangesNothing ==
    [][ /\ (resp'.op = "register" /\ resp'.status # "ok") =>
              (node' = node /\ node_capacity' = node_capacity)
        /\ (resp'.op = "plan" /\ resp'.status \in {"err400", "err500"}) =>
              /\ file_segments' = file_segments
              /\ file_fragments' = file_fragments
              /\ fragment_location' = fragment_location
        /\ (resp'.op = "store" /\ resp'.status = "err400") =>
              (objects' = objects /\ confirmed' = confirmed) ]_vars

\* ------------------------------------------------------- roles in a plan
\* C36: a plan assigns fragments to nodes of role STORAGE only: no node a
\* plan answers with, and no node a row of fragment_location names, is the
\* master or any node of another role.
C36_StorageRoleOnly ==
    /\ (resp.op = "plan" /\ resp.status = "ok") =>
           \A i \in DOMAIN resp.fragments :
               /\ resp.fragments[i].nodeId # MasterId
               /\ \A r \in node : r.node_id = resp.fragments[i].nodeId
                                      => r.node_role = "STORAGE"
    /\ \A l \in fragment_location :
           /\ l.node_id # MasterId
           /\ \A r \in node : r.node_id = l.node_id => r.node_role = "STORAGE"

\* A plan has assigned a fragment while the master's row, of role MASTER,
\* was active.
C36_Witness ==
    /\ resp.op = "plan"
    /\ resp.status = "ok"
    /\ DOMAIN resp.fragments # {}
    /\ fragment_location # {}
    /\ \E r \in node : r.node_role = "MASTER" /\ r.is_active

\* ----------------------------------------------------- timers and start
\* C37: a storage node makes no heartbeat call and no capacity call before
\* one of its registration calls has been answered with success, also
\* while a failed registration waits for its retry.
C37_NoCallBeforeRegistered ==
    [][ resp'.op \in {"heartbeat", "capacity"} => resp'.node_id \notin due ]_vars

\* ------------------------------------------------------------ round robin
\* Number of fragments the plan just answered that went to node id.
Load(id) == Cardinality({ i \in DOMAIN resp.fragments : resp.fragments[i].nodeId = id })

\* C38: in a plan that succeeds, the numbers of fragments given to any two
\* active storage nodes differ by one at most, so that no node gets two
\* fragments when there are as many nodes as descriptors or more.
C38_RoundRobinBalanced ==
    (resp.op = "plan" /\ resp.status = "ok") =>
        /\ \A a, b \in StorageNodes(node) : Load(a.node_id) - Load(b.node_id) <= 1
        /\ Cardinality(StorageNodes(node)) >= Len(resp.fragments) =>
               \A i, j \in DOMAIN resp.fragments :
                   i # j => resp.fragments[i].nodeId # resp.fragments[j].nodeId

\* A plan of more fragments than there are nodes has succeeded over two
\* nodes or more: the list of nodes was gone round more than once.
C38_Witness ==
    /\ resp.op = "plan"
    /\ resp.status = "ok"
    /\ Cardinality(StorageNodes(node)) >= 2
    /\ Len(resp.fragments) > Cardinality(StorageNodes(node))
    /\ \E a, b \in StorageNodes(node) : Load(a.node_id) = Load(b.node_id) + 1

\* --------------------------------------------- heartbeat of an unknown node
\* C39: a heartbeat for a node id that has no row in node adds no row to
\* node and no record to node_heartbeat, and is answered with an error.
C39_UnknownHeartbeatRejected ==
    [][ ( /\ resp'.op = "heartbeat"
          /\ \A r \in node : r.node_id # resp'.node_id )
        => ( /\ node' = node
             /\ node_heartbeat' = node_heartbeat
             /\ resp'.status # "ok" ) ]_vars

\* The heartbeat of a node that never registered has been answered 500,
\* while the heartbeat of a registered node is on record.
C39_Witness ==
    /\ resp.op = "heartbeat"
    /\ resp.status = "err500"
    /\ \A r \in node : r.node_id # resp.node_id
    /\ \E h \in node_heartbeat : h.node_id \in StorageProcs

====
